---------------------------- MODULE Spec2Model ----------------------------
(***************************************************************************)
(* Model of the WinX-Ray exporter of pymontecarlo                          *)
(* (src/pymontecarlo/program/winxray/exporter.py).                         *)
(*                                                                         *)
(* An Options value (beam, geometry, detectors, limits, models) is mapped  *)
(* to one OptionsFile record of the winxraytools library.  Real numbers    *)
(* are exact rationals <<n, d>>; angles in radians are counted in units    *)
(* of pi/12, so that math.degrees multiplies by 15.  An optional value is  *)
(* << >> (never written) or <<v>> (written with v).                        *)
(***************************************************************************)
EXTENDS Integers, Sequences, FiniteSets, TLC

VARIABLES options,   \* the Options value handed to the last call
          dirpath,   \* the dirpath argument of the last call
          wxrops,    \* the OptionsFile object the last call worked on
          outcome,   \* "idle", "ok" or the exception the last call raised
          warned,    \* the warnings the last call emitted
          opss,      \* the Options values the last conversion produced
          wxropss,   \* the record exported for each converted Options value
          op,        \* the operation that ran last
          log        \* the calls made on this Exporter instance, in order

vars == <<options, dirpath, wxrops, outcome, warned, opss, wxropss, op, log>>

(***************************************************************************)
(* Bounds of the model.                                                    *)
(***************************************************************************)
MaxDets == 3
MaxModels == 2
MaxCalls == 3

(***************************************************************************)
(* Exact arithmetic.                                                       *)
(***************************************************************************)
Some(v) == <<v>>
None == << >>

Abs(n) == IF n < 0 THEN -n ELSE n

RECURSIVE GCD(_, _)
GCD(a, b) == IF b = 0 THEN a ELSE GCD(b, a % b)

\* The rational n/d in lowest terms, d > 0.
Rat(n, d) ==
    LET g == GCD(Abs(n), Abs(d))
        s == IF d < 0 THEN -1 ELSE 1
    IN  <<(s * n) \div g, (s * d) \div g>>

RatInt(n) == <<n, 1>>
RatSub(x, y) == Rat(x[1] * y[2] - y[1] * x[2], x[2] * y[2])
\* Factors are cancelled crosswise before multiplying, as 1e9 is near 2^31.
RatMul(x, y) ==
    LET g1 == GCD(Abs(x[1]), y[2])
        g2 == GCD(Abs(y[1]), x[2])
    IN  Rat((x[1] \div g1) * (y[1] \div g2), (x[2] \div g2) * (y[2] \div g1))
RatDiv(x, y) == RatMul(x, <<y[2], y[1]>>)
RatLess(x, y) == x[1] * y[2] < y[1] * x[2]

\* math.degrees of an angle given in units of pi/12 rad.
degrees(x) == RatMul(x, RatInt(15))


(***************************************************************************)
(* The OptionsFile record of winxraytools: the fields the exporter writes. *)
(***************************************************************************)
Flags ==
    {"XrayCompute", "XrayComputeBackground", "XrayComputeCharacteristic",
     "ComputeBSEDistribution", "ComputeBSEDepth", "ComputeBSERadial",
     "ComputeBSESpatial", "ComputeBSELateral", "ComputeBSEEnergy",
     "ComputeBSEAngular", "ComputeSEDistribution",
     "ComputeEnergyLossDistribution", "ComputeEnergyLossDepth",
     "ComputeEnergyLossLateral", "ComputeEnergyLossSpatial",
     "ComputeEnergyLossRadial", "ComputeElectronDistribution",
     "ComputeElectronDepth", "ComputeElectronRadial",
     "ComputeElectronSpatial", "ComputeElectronLateral"}

Counts == {"NbBSEEnergy", "NbBSEAngular", "NumberFilm", "TypeEVChannel",
           "NumberChannel"}

PositionFields == {"TOA_deg", "AngleThetaDetector_deg", "AnglePhiDetector_deg",
                   "UserDefineSolidAngle", "SolidAngle_sr"}

BeamFields == {"MultiEnergy", "IncidentEnergy_keV", "StartEnergy_keV",
               "EndEnergy_keV", "StepEnergy_keV", "NbStepEnergy",
               "BeamDiameter_nm"}

ModelFields == {"TypeElectronElasticCrossSection", "TypeIonizationCrossSection",
                "TypeIonisationPotential", "TypeRandomGenerator",
                "TypeDirectionCosines", "TypeEnergyLoss", "TypeMac"}

Fields == Flags \cup Counts \cup PositionFields \cup BeamFields \cup ModelFields
          \cup {"ResultsPath", "SaveFile", "Elements",
                "MinimumElectronEnergy_eV", "NbElectron"}

\* OptionsFile(): a new record, no field written by the exporter yet.
OptionsFile == [f \in Fields |-> None]

(***************************************************************************)
(* The state one export call works on: the record, the warnings emitted    *)
(* so far and the exception raised, if any ("" for none).  A setter        *)
(* writes one field; once an exception is raised nothing more happens.     *)
(***************************************************************************)
NewCall(w) == [w |-> w, warn |-> {}, exc |-> ""]
set(st, f, v) == [st EXCEPT !.w[f] = Some(v)]
warn(st, message) == [st EXCEPT !.warn = @ \cup {message}]
raise(st, e) == [st EXCEPT !.exc = e]

\* A lookup that falls back on an entry of the table for a missing key.
getitem_default(types, key) ==
    IF key \in DOMAIN types THEN Some(types[key])
    ELSE Some(types[CHOOSE k \in DOMAIN types : TRUE])

\* types[model]: the entry of a dict, or None where Python raises KeyError.
getitem(types, key) == IF key \in DOMAIN types THEN Some(types[key]) ELSE None

(***************************************************************************)
(* Detectors.                                                              *)
(***************************************************************************)
DelimitedKinds == {"PhotonDepthDetector", "PhotonIntensityDetector",
                   "PhotonSpectrumDetector"}

\* _DelimitedDetector.takeoffangle_rad: the middle of the elevation range.
takeoffangle_rad(det) == Rat(det.elevation_rad[1] + det.elevation_rad[2], 2)

\* _DelimitedDetector.solidangle_sr: a function of the opening, kept as a term.
solidangle_sr(det) == <<"solidangle_sr", det.elevation_rad, det.azimuth_rad>>

\* equivalent_opening(det1, det2): the two angular openings match exactly.
equivalent_opening(det1, det2) ==
    /\ det1.elevation_rad = det2.elevation_rad
    /\ det1.azimuth_rad = det2.azimuth_rad

\* options.detectors.iterclass(clasz), as the list of the detectors.
RECURSIVE iterclass(_, _)
iterclass(detectors, kinds) ==
    IF detectors = << >> THEN << >>
    ELSE (IF Head(detectors).kind \in kinds THEN <<Head(detectors)>> ELSE << >>)
         \o iterclass(Tail(detectors), kinds)

_detector_backscattered_electron_energy(opts, name, detector, st) ==
    set(set(set(st, "ComputeBSEDistribution", TRUE),
            "ComputeBSEEnergy", TRUE),
        "NbBSEEnergy", detector.channels)

_detector_backscattered_electron_polar_angular(opts, name, detector, st) ==
    set(set(set(st, "ComputeBSEDistribution", TRUE),
            "ComputeBSEAngular", TRUE),
        "NbBSEAngular", detector.channels)

_detector_photondetector(opts, name, detector, st) ==
    set(set(set(st, "XrayCompute", TRUE),
            "XrayComputeCharacteristic", TRUE),
        "NumberFilm", detector.channels)

\* An intensity exporter that also switches the background off.
_detector_photon_intensity_reset(opts, name, detector, st) ==
    set(set(set(st, "XrayCompute", TRUE), "XrayComputeCharacteristic", TRUE),
        "XrayComputeBackground", FALSE)

_detector_photon_intensity(opts, name, detector, st) ==
    set(set(st, "XrayCompute", TRUE), "XrayComputeCharacteristic", TRUE)

\* The channel width in eV chosen for ev_per_channel, a rational.
EvPerChannelWidth_le(ev_per_channel) ==
    IF ~RatLess(RatInt(10), ev_per_channel) THEN 5
    ELSE IF ~RatLess(RatInt(20), ev_per_channel) THEN 10
    ELSE IF ~RatLess(RatInt(40), ev_per_channel) THEN 20
    ELSE 40

EvPerChannelWidth(ev_per_channel) ==
    IF RatLess(ev_per_channel, RatInt(10)) THEN 5
    ELSE IF RatLess(ev_per_channel, RatInt(20)) THEN 10
    ELSE IF RatLess(ev_per_channel, RatInt(40)) THEN 20
    ELSE 40

\* EvPerChannel.TYPE_5, TYPE_10, TYPE_20, TYPE_40
EvPerChannelType(width) ==
    CASE width = 5 -> "EvPerChannel.TYPE_5"
      [] width = 10 -> "EvPerChannel.TYPE_10"
      [] width = 20 -> "EvPerChannel.TYPE_20"
      [] width = 40 -> "EvPerChannel.TYPE_40"

_detector_photon_spectrum(opts, name, detector, st) ==
    LET st1 == set(set(set(st, "XrayCompute", TRUE),
                       "XrayComputeBackground", TRUE),
                   "XrayComputeCharacteristic", TRUE)
        ev_per_channel == Rat(opts.beam.energy_eV, detector.channels)
        width == EvPerChannelWidth(ev_per_channel)
    IN  set(set(st1, "TypeEVChannel", EvPerChannelType(width)),
            "NumberChannel", opts.beam.energy_eV \div width)

_detector_electron_fraction(opts, name, detector, st) ==
    set(set(st, "ComputeBSEDistribution", TRUE), "ComputeBSEEnergy", TRUE)

_detector_time_flag(opts, name, detector, st) ==
    set(st, "ComputeElectronDistribution", TRUE)

_detector_time(opts, name, detector, st) == st

\* The detector classes registered in __init__.
_detector_exporters ==
    {"BackscatteredElectronEnergyDetector",
     "BackscatteredElectronPolarAngularDetector",
     "PhotonDepthDetector", "PhotonIntensityDetector",
     "PhotonSpectrumDetector", "ElectronFractionDetector", "TimeDetector"}

\* self._detector_exporters[clasz](options, name, detector, wxrops)
CallDetectorExporter(opts, detector, st) ==
    CASE detector.kind = "BackscatteredElectronEnergyDetector" ->
            _detector_backscattered_electron_energy(opts, detector.name, detector, st)
      [] detector.kind = "BackscatteredElectronPolarAngularDetector" ->
            _detector_backscattered_electron_polar_angular(opts, detector.name, detector, st)
      [] detector.kind = "PhotonDepthDetector" ->
            _detector_photondetector(opts, detector.name, detector, st)
      [] detector.kind = "PhotonIntensityDetector" ->
            _detector_photon_intensity(opts, detector.name, detector, st)
      [] detector.kind = "PhotonSpectrumDetector" ->
            _detector_photon_spectrum(opts, detector.name, detector, st)
      [] detector.kind = "ElectronFractionDetector" ->
            _detector_electron_fraction(opts, detector.name, detector, st)
      [] detector.kind = "TimeDetector" ->
            _detector_time(opts, detector.name, detector, st)

\* _Exporter._export_detectors of the base class: each detector, in the
\* order of the collection, goes to the exporter registered for its class;
\* a detector of a class with no exporter is passed over.
RECURSIVE Base_export_detectors(_, _, _)
Base_export_detectors(opts, detectors, st) ==
    IF detectors = << >> \/ st.exc # "" THEN st
    ELSE Base_export_detectors(opts, Tail(detectors),
            IF Head(detectors).kind \in _detector_exporters
            THEN CallDetectorExporter(opts, Head(detectors), st)
            ELSE st)

\* "Deactivate all detectors": every compute flag is set to False.
RECURSIVE DeactivateAll(_, _)
DeactivateAll(st, flags) ==
    IF flags = {} THEN st
    ELSE LET f == CHOOSE x \in flags : TRUE
         IN  DeactivateAll(set(st, f, FALSE), flags \ {f})

\* all(map(equivalent_opening, dets[:-1], dets[1:]))
AllFirstPair(dets) == equivalent_opening(dets[1], dets[2])

\* The test with the negation misplaced: no consecutive pair may match.
NoConsecutiveEquivalent(dets) ==
    \A i \in 1 .. Len(dets) - 1 : ~equivalent_opening(dets[i], dets[i + 1])

AllConsecutiveEquivalent(dets) ==
    \A i \in 1 .. Len(dets) - 1 : equivalent_opening(dets[i], dets[i + 1])

\* The "Detector position" part of _export_detectors.
DetectorPosition(dets, st) ==
    IF Len(dets) >= 2 /\ ~AllConsecutiveEquivalent(dets)
    THEN raise(st, "ExporterException")
    ELSE IF dets # << >>
    THEN LET toa_deg == degrees(takeoffangle_rad(dets[1]))
             phi_deg == degrees(RatDiv(RatInt(dets[1].azimuth_rad[1]
                                              + dets[1].azimuth_rad[2]),
                                       RatInt(2)))
         IN  set(set(set(set(set(st, "TOA_deg", toa_deg),
                             "AngleThetaDetector_deg", RatSub(RatInt(90), toa_deg)),
                         "AnglePhiDetector_deg", phi_deg),
                     "UserDefineSolidAngle", TRUE),
                 "SolidAngle_sr", solidangle_sr(dets[1]))
    ELSE st

_export_detectors(opts, st) ==
    LET st1 == DeactivateAll(st, Flags)
        st2 == Base_export_detectors(opts, opts.detectors, st1)
    IN  IF st2.exc # "" THEN st2
        ELSE DetectorPosition(iterclass(opts.detectors, DelimitedKinds), st2)

(***************************************************************************)
(* Beam, geometry and limits.                                              *)
(***************************************************************************)
\* beam.energy_eV / 1000.0
energy_keV_floor(energy_eV) == RatInt(energy_eV \div 1000)

energy_keV(energy_eV) == Rat(energy_eV, 1000)

\* beam.diameter_m * 1e9
diameter_nm(diameter_m) == RatMul(diameter_m, RatInt(1000000000))

_beam_gaussian(opts, beam, st) ==
    LET st1 == set(st, "MultiEnergy", FALSE)
        st2 == set(st1, "IncidentEnergy_keV", energy_keV(beam.energy_eV))
        st3 == set(st2, "StartEnergy_keV", energy_keV(beam.energy_eV))
        st4 == set(st3, "EndEnergy_keV", energy_keV(beam.energy_eV))
        st5 == set(st4, "StepEnergy_keV", 1)
        st6 == set(st5, "NbStepEnergy", 1)
        st7 == set(st6, "BeamDiameter_nm", diameter_nm(beam.diameter_m))
    IN  IF beam.origin_m # <<0, 0, 0>>
        THEN warn(st7, "No beam position in WinX-Ray")
        ELSE st7

\* options.geometry.get_materials(): a substrate has the material of its body.
get_materials(geometry) == {geometry.body.material}

Min(S) == CHOOSE x \in S : \A y \in S : x <= y

_geometry_substrate(opts, geometry, st) ==
    LET material == geometry.body.material
        composition == material.composition
        zs == [i \in DOMAIN composition |-> composition[i][1]]
        wfs == [i \in DOMAIN composition |-> composition[i][2]]
        st1 == set(st, "Elements", <<zs, wfs>>)
        st2 == warn(st1, "WinXRay does not support user defined density")
        st3 == IF opts.geometry.tilt_rad # 0
               THEN warn(st2, "WinXRay does not support sample tilt. Use beam tilt instead.")
               ELSE st2
        st4 == IF opts.geometry.rotation_rad # 0
               THEN warn(st3, "WinXRay does not support sample rotation.")
               ELSE st3
        abs_electron_eV == Min({mat.absorption_energy_eV :
                                    mat \in get_materials(opts.geometry)})
    IN  set(st4, "MinimumElectronEnergy_eV", abs_electron_eV)

\* A limit exporter that writes nothing.
_limit_showers_skip(opts, limit, st) == st

_limit_showers(opts, limit, st) == set(st, "NbElectron", limit.showers)

\* The limit classes registered in __init__.
_limit_exporters == {"ShowersLimit"}

(***************************************************************************)
(* Physical models: one mapping table per model category.  A model is      *)
(* <<category, name>>.                                                     *)
(***************************************************************************)
\* wxrops.setX(types[model]), or the KeyError of types[model].
SetFromTable(st, field, types, model) ==
    LET entry == getitem(types, model[2])
    IN  IF entry = None THEN raise(st, "KeyError")
        ELSE set(st, field, entry[1])

types_elastic_cross_section ==
       ("mott_czyzewski1990" :> "ElectronElasticCrossSection.TYPE_MOTTTABULATED")
    @@ ("mott_czyzewski1990_linear" :> "ElectronElasticCrossSection.TYPE_MOTTTABULATEDLINEAR")
    @@ ("mott_czyzewski1990_powerlaw" :> "ElectronElasticCrossSection.TYPE_MOTTTABULATEDPOWERLAW")
    @@ ("mott_czyzewski1990_cubicspline" :> "ElectronElasticCrossSection.TYPE_MOTTTABULATEDCUBICSPLINE")
    @@ ("mott_demers" :> "ElectronElasticCrossSection.TYPE_MOTTPARAMETRIZEDHD")
    @@ ("rutherford" :> "ElectronElasticCrossSection.TYPE_RUTHERFORD")
    @@ ("rutherford_relativistic" :> "ElectronElasticCrossSection.TYPE_RUTHERFORDRELATIVISTIC")

types_ionization_cross_section ==
    ("casnati1982" :> "IonizationCrossSection.TYPE_CASNATI")

types_ionization_potential ==
    ("joy_luo1989" :> "IonizationPotential.TYPE_JOY_LUO")

types_random_number_generator ==
       ("press1966_rand1" :> "RandomNumberGenerator.TYPE_RAN1")
    @@ ("press1966_rand2" :> "RandomNumberGenerator.TYPE_RAN2")
    @@ ("press1966_rand3" :> "RandomNumberGenerator.TYPE_RAN3")
    @@ ("press1966_rand4" :> "RandomNumberGenerator.TYPE_RAN4")

types_direction_cosine ==
    ("demers2000" :> "DirectionCosine.TYPE_DEMERS")

types_energy_loss ==
    ("joy_luo1989" :> "EnergyLoss.TYPE_JOY_LUO")

types_mass_absorption_coefficient ==
       ("heinrich_ixcom11" :> "MassAbsorptionCoefficient.TYPE_HEINRICH")
    @@ ("henke1993" :> "MassAbsorptionCoefficient.TYPE_HENKE")
    @@ ("thinh_leroux1979" :> "MassAbsorptionCoefficient.TYPE_THINH_LEROUX")

_model_elastic_cross_section(opts, model, st) ==
    SetFromTable(st, "TypeElectronElasticCrossSection",
                 types_elastic_cross_section, model)

_model_ionization_cross_section(opts, model, st) ==
    SetFromTable(st, "TypeIonizationCrossSection",
                 types_ionization_cross_section, model)

_model_ionization_potential(opts, model, st) ==
    SetFromTable(st, "TypeIonisationPotential",
                 types_ionization_potential, model)

_model_random_number_generator(opts, model, st) ==
    SetFromTable(st, "TypeRandomGenerator",
                 types_random_number_generator, model)

_model_direction_cosine(opts, model, st) ==
    SetFromTable(st, "TypeDirectionCosines", types_direction_cosine, model)

_model_energy_loss(opts, model, st) ==
    SetFromTable(st, "TypeEnergyLoss", types_energy_loss, model)

_model_mass_absorption_coefficient(opts, model, st) ==
    SetFromTable(st, "TypeMac", types_mass_absorption_coefficient, model)

\* A registry that lacks the last category.
_model_exporters_short ==
    {"ELASTIC_CROSS_SECTION", "IONIZATION_CROSS_SECTION", "IONIZATION_POTENTIAL",
     "RANDOM_NUMBER_GENERATOR", "DIRECTION_COSINE", "ENERGY_LOSS"}

\* The model categories registered in __init__.
_model_exporters ==
    {"ELASTIC_CROSS_SECTION", "IONIZATION_CROSS_SECTION", "IONIZATION_POTENTIAL",
     "RANDOM_NUMBER_GENERATOR", "DIRECTION_COSINE", "ENERGY_LOSS",
     "MASS_ABSORPTION_COEFFICIENT"}

\* self._model_exporters[model.type](options, model, wxrops)
CallModelExporter(opts, model, st) ==
    CASE model[1] = "ELASTIC_CROSS_SECTION" -> _model_elastic_cross_section(opts, model, st)
      [] model[1] = "IONIZATION_CROSS_SECTION" -> _model_ionization_cross_section(opts, model, st)
      [] model[1] = "IONIZATION_POTENTIAL" -> _model_ionization_potential(opts, model, st)
      [] model[1] = "RANDOM_NUMBER_GENERATOR" -> _model_random_number_generator(opts, model, st)
      [] model[1] = "DIRECTION_COSINE" -> _model_direction_cosine(opts, model, st)
      [] model[1] = "ENERGY_LOSS" -> _model_energy_loss(opts, model, st)
      [] model[1] = "MASS_ABSORPTION_COEFFICIENT" -> _model_mass_absorption_coefficient(opts, model, st)

(***************************************************************************)
(* The base class _Exporter: _run_exporters hands the beam, the geometry,  *)
(* the detectors, the limits and the models to the registered exporters,   *)
(* in this order; what has no registered exporter is passed over.          *)
(***************************************************************************)
RECURSIVE Base_export_limits(_, _, _)
Base_export_limits(opts, limits, st) ==
    IF limits = << >> \/ st.exc # "" THEN st
    ELSE Base_export_limits(opts, Tail(limits),
            IF Head(limits).kind \in _limit_exporters
            THEN _limit_showers(opts, Head(limits), st)
            ELSE st)

RECURSIVE Base_export_models(_, _, _)
Base_export_models(opts, models, st) ==
    IF models = << >> \/ st.exc # "" THEN st
    ELSE Base_export_models(opts, Tail(models),
            IF Head(models)[1] \in _model_exporters
            THEN CallModelExporter(opts, Head(models), st)
            ELSE st)

_run_exporters(opts, st) ==
    LET st1 == _beam_gaussian(opts, opts.beam, st)
        st2 == _geometry_substrate(opts, opts.geometry, st1)
        st3 == _export_detectors(opts, st2)
        st4 == IF st3.exc # "" THEN st3
               ELSE Base_export_limits(opts, opts.limits, st3)
    IN  IF st4.exc # "" THEN st4
        ELSE Base_export_models(opts, opts.models, st4)

\* The record a call starts from, had the instance kept the last one.
ReusedOptionsFile == wxrops

\* wxrops = OptionsFile()
NewOptionsFile == OptionsFile

\* export_wxroptions(options, dirpath), started on the record w0.
export_wxroptions(opts, dp, w0) ==
    LET st0 == NewCall(w0)
        st1 == IF dp # None THEN set(st0, "ResultsPath", dp[1]) ELSE st0
        st2 == set(st1, "SaveFile", TRUE)
    IN  _run_exporters(opts, st2)

(***************************************************************************)
(* The converter that runs before the exporter                             *)
(* (pymontecarlo.program.winxray.converter.Converter.convert): it returns  *)
(* the Options values the program can simulate.  Without a ShowersLimit    *)
(* there are none.  Detectors, limits and model categories the program     *)
(* does not know are dropped.  Each returned value holds one detector per  *)
(* detector class, and its delimited detectors share one opening.          *)
(***************************************************************************)
opening(det) == <<det.elevation_rad, det.azimuth_rad>>

HasShowersLimit(opts) ==
    \E i \in DOMAIN opts.limits : opts.limits[i].kind = "ShowersLimit"

KnownDetector(det) == det.kind \in _detector_exporters
KnownLimit(limit) == limit.kind \in _limit_exporters
KnownModel(model) == model[1] \in _model_exporters

Supported(opts) ==
    [opts EXCEPT !.detectors = SelectSeq(@, KnownDetector),
                 !.limits = SelectSeq(@, KnownLimit),
                 !.models = SelectSeq(@, KnownModel)]

\* The ways to keep one detector of each class present.
SingleDetector(detectors) ==
    LET kinds == {detectors[i].kind : i \in DOMAIN detectors}
        picks == {c \in [kinds -> DOMAIN detectors] :
                      \A k \in kinds : detectors[c[k]].kind = k}
    IN  {LET names == {detectors[c[k]].name : k \in kinds}
             Picked(det) == det.name \in names
         IN  SelectSeq(detectors, Picked) : c \in picks}

\* The detectors split by the opening of the delimited ones.
SameOpening(detectors) ==
    LET dets == iterclass(detectors, DelimitedKinds)
        openings == {opening(dets[i]) : i \in DOMAIN dets}
    IN  IF openings = {} THEN {detectors}
        ELSE {LET Fits(det) == det.kind \notin DelimitedKinds \/ opening(det) = o
              IN  SelectSeq(detectors, Fits) : o \in openings}

convert(opts) ==
    IF ~HasShowersLimit(opts) THEN {}
    ELSE LET ops == Supported(opts)
         IN  {[ops EXCEPT !.detectors = ds] :
                  ds \in UNION {SameOpening(single) :
                                    single \in SingleDetector(ops.detectors)}}

(***************************************************************************)
(* The Options values the model is run on.                                 *)
(***************************************************************************)
SeqsUpTo(S, n) == UNION {[1 .. k -> S] : k \in 0 .. n}

Detector(kind, elevation_rad, azimuth_rad, channels) ==
    [name |-> 0, kind |-> kind, elevation_rad |-> elevation_rad,
     azimuth_rad |-> azimuth_rad, channels |-> channels]

\* Three openings: B differs from A in elevation only, C in azimuth only.
ElevationA == <<0, 2>>
ElevationB == <<1, 2>>
AzimuthA == <<4, 6>>
AzimuthC == <<5, 6>>

Undelimited(kind, channels) == Detector(kind, <<0, 0>>, <<0, 0>>, channels)

DetectorValues ==
    {Detector("PhotonDepthDetector", ElevationA, AzimuthA, 1000),
     Detector("PhotonDepthDetector", ElevationB, AzimuthA, 1000),
     Detector("PhotonDepthDetector", ElevationA, AzimuthC, 1000),
     Detector("PhotonIntensityDetector", ElevationA, AzimuthA, 0),
     Detector("PhotonSpectrumDetector", ElevationA, AzimuthA, 100),
     Undelimited("BackscatteredElectronEnergyDetector", 1000),
     Undelimited("TimeDetector", 0),
     Undelimited("TransmittedElectronEnergyDetector", 1000)}

OtherDetectorValues ==
    {Detector("PhotonSpectrumDetector", ElevationA, AzimuthC, 50),
     Undelimited("BackscatteredElectronPolarAngularDetector", 500),
     Undelimited("ElectronFractionDetector", 0)}

\* The detectors of a collection are keyed; the key is the position here.
Keyed(detectors) == [i \in DOMAIN detectors |-> [detectors[i] EXCEPT !.name = i]]

ShowersLimit(showers) == [kind |-> "ShowersLimit", value |-> showers, showers |-> showers]
TimeLimit(time_s) == [kind |-> "TimeLimit", value |-> time_s, showers |-> 0]

ModelValues ==
    ({"ELASTIC_CROSS_SECTION"} \X (DOMAIN types_elastic_cross_section \cup {"elsepa2005"}))
    \cup ({"IONIZATION_CROSS_SECTION"} \X (DOMAIN types_ionization_cross_section \cup {"pouchou1986"}))
    \cup ({"IONIZATION_POTENTIAL"} \X (DOMAIN types_ionization_potential \cup {"sternheimer1964"}))
    \cup ({"RANDOM_NUMBER_GENERATOR"} \X (DOMAIN types_random_number_generator \cup {"mersenne"}))
    \cup ({"DIRECTION_COSINE"} \X (DOMAIN types_direction_cosine \cup {"soum1979"}))
    \cup ({"ENERGY_LOSS"} \X (DOMAIN types_energy_loss \cup {"bethe1930"}))
    \cup ({"MASS_ABSORPTION_COEFFICIENT"} \X (DOMAIN types_mass_absorption_coefficient \cup {"henke1982"}))
    \cup {<<"new", "test">>}

\* One selection per model category.
ModelSeqs ==
    {ms \in SeqsUpTo(ModelValues, MaxModels) :
        \A i, j \in DOMAIN ms : i # j => ms[i][1] # ms[j][1]}

Copper == [composition |-> <<<<29, <<1, 1>>>>>>,
           density_defined |-> FALSE,
           absorption_energy_eV |-> 50]

Brass == [composition |-> <<<<29, <<13, 20>>>>, <<30, <<7, 20>>>>>>,
          density_defined |-> TRUE,
          absorption_energy_eV |-> 100]

\* Options(name="Test") with a Gaussian beam of 1234 eV and 10 nm.
BaseOptions ==
    [beam |-> [energy_eV |-> 1234, diameter_m |-> <<1, 100000000>>,
               origin_m |-> <<0, 0, 0>>],
     geometry |-> [body |-> [material |-> Copper], tilt_rad |-> 0,
                   rotation_rad |-> 0],
     detectors |-> << >>,
     limits |-> <<ShowersLimit(5678)>>,
     models |-> << >>]

LimitSeqs == {<< >>, <<ShowersLimit(5678)>>}

DetectorInputs ==
    {[BaseOptions EXCEPT !.detectors = Keyed(ds), !.limits = ls] :
        ds \in SeqsUpTo(DetectorValues, MaxDets)
               \cup SeqsUpTo(OtherDetectorValues, 1),
        ls \in LimitSeqs}
    \cup {[BaseOptions EXCEPT !.limits = <<TimeLimit(60), ShowersLimit(5678)>>],
          [BaseOptions EXCEPT !.limits = <<TimeLimit(60)>>]}

\* One detector of each class with an exporter, all with one opening.
SupportedDetectorValues ==
    {Detector("PhotonDepthDetector", ElevationA, AzimuthA, 1000),
     Detector("PhotonIntensityDetector", ElevationA, AzimuthA, 0),
     Detector("PhotonSpectrumDetector", ElevationA, AzimuthA, 100),
     Undelimited("BackscatteredElectronEnergyDetector", 1000),
     Undelimited("BackscatteredElectronPolarAngularDetector", 500),
     Undelimited("ElectronFractionDetector", 0),
     Undelimited("TimeDetector", 0)}

SupportedDetectorInputs ==
    {[BaseOptions EXCEPT !.detectors = Keyed(ds)] :
        ds \in SeqsUpTo(SupportedDetectorValues, MaxDets)}

ModelInputs == {[BaseOptions EXCEPT !.models = ms] : ms \in ModelSeqs}

Energies == {999, 1000, 1234, 1999, 2000, 3999, 4000, 5000}

BeamInputs ==
    {[BaseOptions EXCEPT !.beam = [energy_eV |-> e, diameter_m |-> d, origin_m |-> o],
                         !.detectors = Keyed(ds)] :
        e \in Energies,
        d \in {<<1, 100000000>>, <<1, 40000000>>},
        o \in {<<0, 0, 0>>, <<0, 0, 1>>},
        ds \in SeqsUpTo({Detector("PhotonSpectrumDetector", ElevationA, AzimuthA, 100)}, 1)}

GeometryInputs ==
    {[BaseOptions EXCEPT !.beam.origin_m = o,
                         !.geometry = [body |-> [material |-> m], tilt_rad |-> t,
                                       rotation_rad |-> r]] :
        o \in {<<0, 0, 0>>, <<1, 0, 0>>}, m \in {Copper, Brass},
        t \in {0, 1}, r \in {0, 1}}

Inputs == DetectorInputs \cup SupportedDetectorInputs \cup ModelInputs
          \cup BeamInputs \cup GeometryInputs

\* The dirpath arguments a call is tried with.
Dirpaths(opts) ==
    IF opts \in BeamInputs \cup GeometryInputs THEN {None, Some("results")}
    ELSE {None}

(***************************************************************************)
(* The operations.                                                         *)
(***************************************************************************)
Outcome(st) == IF st.exc = "" THEN "ok" ELSE st.exc

\* One call of export_wxroptions(opts, dp).
ExportCall(opts, dp) ==
    LET st == export_wxroptions(opts, dp, NewOptionsFile)
    IN  /\ options' = opts
        /\ dirpath' = dp
        /\ wxrops' = st.w
        /\ warned' = st.warn
        /\ outcome' = Outcome(st)
        /\ op' = "export_wxroptions"
        /\ UNCHANGED <<opss, wxropss>>

\* Conversion, then the export of every Options value it returned.
ConvertCall(opts) ==
    LET converted == convert(opts)
        sts == [o \in converted |-> export_wxroptions(o, None, NewOptionsFile)]
        failed == {o \in converted : sts[o].exc # ""}
    IN  /\ options' = opts
        /\ dirpath' = None
        /\ opss' = converted
        /\ wxropss' = IF failed = {} THEN [o \in converted |-> sts[o].w]
                      ELSE << >>
        /\ outcome' = IF failed = {} THEN "ok"
                      ELSE sts[CHOOSE o \in failed : TRUE].exc
        /\ warned' = UNION {sts[o].warn : o \in converted}
        /\ op' = "convert"
        /\ UNCHANGED wxrops

Init ==
    /\ options \in Inputs
    /\ dirpath = None
    /\ wxrops = OptionsFile
    /\ outcome = "idle"
    /\ warned = {}
    /\ opss = {}
    /\ wxropss = << >>
    /\ op = "none"
    /\ log = << >>

ExportWxrOptions ==
    /\ op = "none"
    /\ \E dp \in Dirpaths(options) : ExportCall(options, dp)
    /\ UNCHANGED log

Convert ==
    /\ op = "none"
    /\ ConvertCall(options)
    /\ UNCHANGED log

Next == ExportWxrOptions \/ Convert

Spec == Init /\ [][Next]_vars

(***************************************************************************)
(* A sequence of export_wxroptions calls on one Exporter instance: the     *)
(* log keeps, for each call, the Options as handed in and as left by the   *)
(* call, the outcome and the record.                                       *)
(***************************************************************************)
CallInputs ==
    {BaseOptions,
     [BaseOptions EXCEPT !.limits = << >>],
     [BaseOptions EXCEPT !.detectors =
         Keyed(<<Detector("PhotonDepthDetector", ElevationA, AzimuthA, 1000)>>)],
     [BaseOptions EXCEPT !.detectors =
         Keyed(<<Detector("PhotonSpectrumDetector", ElevationB, AzimuthA, 100),
                 Undelimited("BackscatteredElectronEnergyDetector", 1000)>>)],
     [BaseOptions EXCEPT !.detectors =
         Keyed(<<Detector("PhotonDepthDetector", ElevationA, AzimuthA, 1000),
                 Detector("PhotonIntensityDetector", ElevationA, AzimuthC, 0)>>)],
     [BaseOptions EXCEPT !.models = <<<<"RANDOM_NUMBER_GENERATOR", "press1966_rand1">>,
                                      <<"ENERGY_LOSS", "joy_luo1989">>>>],
     [BaseOptions EXCEPT !.models = <<<<"ENERGY_LOSS", "bethe1930">>>>],
     [BaseOptions EXCEPT !.beam.energy_eV = 4000, !.beam.origin_m = <<0, 0, 1>>,
                         !.geometry.tilt_rad = 1]}

InitCalls ==
    /\ options = BaseOptions
    /\ dirpath = None
    /\ wxrops = OptionsFile
    /\ outcome = "idle"
    /\ warned = {}
    /\ opss = {}
    /\ wxropss = << >>
    /\ op = "none"
    /\ log = << >>

Call ==
    /\ Len(log) < MaxCalls
    /\ \E opts \in CallInputs, dp \in {None, Some("results")} :
          /\ ExportCall(opts, dp)
          /\ log' = Append(log, [options |-> opts, after |-> options',
                                  dirpath |-> dp, outcome |-> outcome',
                                  wxrops |-> wxrops'])

NextCalls == Call

SpecCalls == InitCalls /\ [][NextCalls]_vars

(***************************************************************************)
(* Vocabulary of the properties.                                           *)
(***************************************************************************)
\* The seven physical-model categories.
Categories ==
    {"ELASTIC_CROSS_SECTION", "IONIZATION_CROSS_SECTION", "IONIZATION_POTENTIAL",
     "RANDOM_NUMBER_GENERATOR", "DIRECTION_COSINE", "ENERGY_LOSS",
     "MASS_ABSORPTION_COEFFICIENT"}

MappingTable(category) ==
    CASE category = "ELASTIC_CROSS_SECTION" -> types_elastic_cross_section
      [] category = "IONIZATION_CROSS_SECTION" -> types_ionization_cross_section
      [] category = "IONIZATION_POTENTIAL" -> types_ionization_potential
      [] category = "RANDOM_NUMBER_GENERATOR" -> types_random_number_generator
      [] category = "DIRECTION_COSINE" -> types_direction_cosine
      [] category = "ENERGY_LOSS" -> types_energy_loss
      [] category = "MASS_ABSORPTION_COEFFICIENT" -> types_mass_absorption_coefficient

TargetField(category) ==
    CASE category = "ELASTIC_CROSS_SECTION" -> "TypeElectronElasticCrossSection"
      [] category = "IONIZATION_CROSS_SECTION" -> "TypeIonizationCrossSection"
      [] category = "IONIZATION_POTENTIAL" -> "TypeIonisationPotential"
      [] category = "RANDOM_NUMBER_GENERATOR" -> "TypeRandomGenerator"
      [] category = "DIRECTION_COSINE" -> "TypeDirectionCosines"
      [] category = "ENERGY_LOSS" -> "TypeEnergyLoss"
      [] category = "MASS_ABSORPTION_COEFFICIENT" -> "TypeMac"

HasEntry(model) == model[1] \in Categories /\ model[2] \in DOMAIN MappingTable(model[1])
NoEntry(model) == model[1] \in Categories /\ model[2] \notin DOMAIN MappingTable(model[1])

ModelsMapped(opts) == \A i \in DOMAIN opts.models : ~NoEntry(opts.models[i])

Delimited(opts) == {i \in DOMAIN opts.detectors : opts.detectors[i].kind \in DelimitedKinds}
Openings(opts) == {opening(opts.detectors[i]) : i \in Delimited(opts)}

DistinctClasses(opts) ==
    \A i, j \in DOMAIN opts.detectors :
        i # j => opts.detectors[i].kind # opts.detectors[j].kind

NumRecords == Cardinality(DOMAIN wxropss)

\* The number of maximal groups of detectors with one opening; a collection
\* without a delimited detector is one group.
NumGroups(opts) == IF Openings(opts) = {} THEN 1 ELSE Cardinality(Openings(opts))

Converted == op = "convert"
Exported == op = "export_wxroptions"

Returned == IF outcome = "ok" THEN Some(wxrops) ELSE None

SomePairNotEquivalent(opts) ==
    \E i, j \in Delimited(opts) :
        ~equivalent_opening(opts.detectors[i], opts.detectors[j])

FirstDelimited(opts) ==
    opts.detectors[CHOOSE i \in Delimited(opts) : \A j \in Delimited(opts) : i <= j]

\* The position fields for detector det: angles in degrees, 15 per unit.
PositionOf(det) ==
    LET e == det.elevation_rad[1] + det.elevation_rad[2]
        a == det.azimuth_rad[1] + det.azimuth_rad[2]
    IN  [TOA_deg |-> Some(Rat(15 * e, 2)),
         AngleThetaDetector_deg |-> Some(Rat(180 - 15 * e, 2)),
         AnglePhiDetector_deg |-> Some(Rat(15 * a, 2)),
         UserDefineSolidAngle |-> Some(TRUE),
         SolidAngle_sr |-> Some(<<"solidangle_sr", det.elevation_rad, det.azimuth_rad>>)]

C2_ConflictIffSomePairDiffers ==
    (Exported /\ Cardinality(Delimited(options)) >= 2)
        => /\ (outcome = "ExporterException") <=> SomePairNotEquivalent(options)
           /\ outcome = "ExporterException"
                => /\ Returned = None
                   /\ \A f \in PositionFields : wxrops[f] = None
           /\ outcome # "ExporterException"
                => \A f \in PositionFields :
                       wxrops[f] = PositionOf(FirstDelimited(options))[f]

\* Three delimited detectors, the first two with one opening and the third
\* with another: the error is raised.
C2_Witness ==
    /\ Exported /\ outcome = "ExporterException"
    /\ Cardinality(Delimited(options)) = 3
    /\ LET d == iterclass(options.detectors, DelimitedKinds)
       IN  equivalent_opening(d[1], d[2]) /\ ~equivalent_opening(d[2], d[3])

(***************************************************************************)
(* C3: in each of the seven model categories, exporting a selected model   *)
(* that has an entry in the category's mapping table sets the category's   *)
(* target field to the mapped constant; exporting one with no entry fails  *)
(* (the KeyError of the lookup) without writing the category's field.      *)
(* The models are exported in order, up to the first one with no entry.    *)
(***************************************************************************)
FirstNoEntry(opts) ==
    IF ModelsMapped(opts) THEN Len(opts.models) + 1
    ELSE CHOOSE i \in DOMAIN opts.models :
             /\ NoEntry(opts.models[i])
             /\ \A j \in 1 .. i - 1 : ~NoEntry(opts.models[j])

C3_MappedOrUnsupported ==
    (Exported /\ outcome # "ExporterException")
        => LET models == options.models
               bad == FirstNoEntry(options)
           IN  /\ (outcome = "ok") <=> ModelsMapped(options)
               /\ (outcome = "KeyError") <=> ~ModelsMapped(options)
               /\ \A i \in DOMAIN models :
                      /\ (i < bad /\ HasEntry(models[i]))
                            => wxrops[TargetField(models[i][1])]
                                  = Some(MappingTable(models[i][1])[models[i][2]])
                      /\ (i = bad) => wxrops[TargetField(models[i][1])] = None

\* A mapped model followed by a model with no entry: the first field is
\* written, the call fails, the second field is not written.
C3_Witness ==
    /\ Exported /\ outcome = "KeyError"
    /\ Len(options.models) = 2
    /\ HasEntry(options.models[1]) /\ NoEntry(options.models[2])
    /\ wxrops[TargetField(options.models[1][1])] # None
    /\ wxrops[TargetField(options.models[2][1])] = None

(***************************************************************************)
(* C4 (as stated): a warning is emitted exactly when the beam origin is    *)
(* not (0, 0, 0), the sample tilt or rotation is non-zero or a non-default *)
(* density is set; the export then still returns a record.                 *)
(***************************************************************************)
UnsupportedFeature(opts) ==
    \/ opts.beam.origin_m # <<0, 0, 0>>
    \/ opts.geometry.tilt_rad # 0
    \/ opts.geometry.rotation_rad # 0
    \/ opts.geometry.body.material.density_defined

C4_WarningIffUnsupportedFeature ==
    (Exported /\ outcome \notin {"ExporterException", "KeyError"})
        => /\ (warned # {}) <=> UnsupportedFeature(options)
           /\ outcome = "ok"

(***************************************************************************)
(* C5: for Options without a shower-count limit, conversion and export     *)
(* produce zero records, whatever the beam, detectors and models; with a   *)
(* limit and no failing export they produce at least one, and every        *)
(* record carries the limit's shower count.                                *)
(***************************************************************************)
Showers(opts) ==
    opts.limits[CHOOSE i \in DOMAIN opts.limits :
                    /\ opts.limits[i].kind = "ShowersLimit"
                    /\ \A j \in DOMAIN opts.limits :
                           opts.limits[j].kind = "ShowersLimit" => j <= i].showers

Spectrum(opts) ==
    {i \in DOMAIN opts.detectors : opts.detectors[i].kind = "PhotonSpectrumDetector"}

LastSpectrum(opts) ==
    opts.detectors[CHOOSE i \in Spectrum(opts) : \A j \in Spectrum(opts) : j <= i]

Band(E, C) ==
    IF E < 10 * C THEN 5
    ELSE IF E < 20 * C THEN 10
    ELSE IF E < 40 * C THEN 20
    ELSE 40

TypeConstant(w) ==
    [w5 |-> "EvPerChannel.TYPE_5", w10 |-> "EvPerChannel.TYPE_10",
     w20 |-> "EvPerChannel.TYPE_20", w40 |-> "EvPerChannel.TYPE_40"]
        [CASE w = 5 -> "w5" [] w = 10 -> "w10" [] w = 20 -> "w20" [] w = 40 -> "w40"]

C6_ChannelWidthBands ==
    (Exported /\ Spectrum(options) # {})
        => LET E == options.beam.energy_eV
               C == LastSpectrum(options).channels
               w == Band(E, C)
           IN  /\ wxrops.TypeEVChannel = Some(TypeConstant(w))
               /\ wxrops.NumberChannel = Some(E \div w)
               /\ E = 10 * C => wxrops.TypeEVChannel = Some("EvPerChannel.TYPE_10")
               /\ E = 20 * C => wxrops.TypeEVChannel = Some("EvPerChannel.TYPE_20")
               /\ E = 40 * C => wxrops.TypeEVChannel = Some("EvPerChannel.TYPE_40")

\* E/C = 20 exactly: width 20 and 100 channels.
C6_Witness ==
    /\ Exported /\ outcome = "ok" /\ Spectrum(options) # {}
    /\ options.beam.energy_eV = 20 * LastSpectrum(options).channels
    /\ wxrops.TypeEVChannel = Some("EvPerChannel.TYPE_20")
    /\ wxrops.NumberChannel = Some(100)

(***************************************************************************)
(* C7: a detector the exporter does nothing for (a class with no           *)
(* registered exporter, or a TimeDetector) is silently ignored: the call   *)
(* raises no error for it and ends, with the same record, outcome and      *)
(* warnings, as for the Options without that detector; when no other       *)
(* detector is present every compute flag is False and no channel count    *)
(* is written.                                                             *)
(***************************************************************************)
Ignored(det) ==
    det.kind \in {"TransmittedElectronEnergyDetector", "TimeDetector"}

NotIgnored(det) == ~Ignored(det)

WithoutIgnored(opts) == [opts EXCEPT !.detectors = SelectSeq(@, NotIgnored)]

Unseen(model) == model[1] \notin Categories
Seen(model) == ~Unseen(model)
HasUnseen(opts) == \E i \in DOMAIN opts.models : Unseen(opts.models[i])
WithoutUnseen(opts) == [opts EXCEPT !.models = SelectSeq(@, Seen)]

FieldsMapped(opts, w) ==
    \A i \in DOMAIN opts.models :
        HasEntry(opts.models[i])
            => w[TargetField(opts.models[i][1])]
                  = Some(MappingTable(opts.models[i][1])[opts.models[i][2]])

HasKind(opts, kinds) == \E i \in DOMAIN opts.detectors : opts.detectors[i].kind \in kinds
HasCategory(opts, category) == \E i \in DOMAIN opts.models : opts.models[i][1] = category

\* The fields of record w that opts (and dp) give no reason to write are unwritten.
Fresh(opts, dp, w) ==
    /\ dp = None => w.ResultsPath = None
    /\ ~HasKind(opts, DelimitedKinds) => \A f \in PositionFields : w[f] = None
    /\ ~HasKind(opts, {"BackscatteredElectronEnergyDetector"}) => w.NbBSEEnergy = None
    /\ ~HasKind(opts, {"BackscatteredElectronPolarAngularDetector"}) => w.NbBSEAngular = None
    /\ ~HasKind(opts, {"PhotonDepthDetector"}) => w.NumberFilm = None
    /\ ~HasKind(opts, {"PhotonSpectrumDetector"})
          => (w.TypeEVChannel = None /\ w.NumberChannel = None)
    /\ opts.detectors = << >> => \A f \in Flags : w[f] = Some(FALSE)
    /\ ~HasShowersLimit(opts) => w.NbElectron = None
    /\ \A c \in Categories : ~HasCategory(opts, c) => w[TargetField(c)] = None

C9_CallsIndependent ==
    \A i \in DOMAIN log :
        /\ log[i].after = log[i].options
        /\ log[i].outcome = "ok" => Fresh(log[i].options, log[i].dirpath, log[i].wxrops)
        /\ \A j \in DOMAIN log :
               (log[i].options = log[j].options /\ log[i].dirpath = log[j].dirpath)
                   => /\ log[i].outcome = log[j].outcome
                      /\ log[i].outcome = "ok" => log[i].wxrops = log[j].wxrops

\* Three calls: the first and the third with the same Options, the second
\* with a delimited detector and a results path in between.
C9_Witness ==
    /\ Len(log) = 3
    /\ log[1].options = log[3].options /\ log[1].options # log[2].options
    /\ log[1].dirpath = None /\ log[3].dirpath = None
    /\ log[2].outcome = "ok" /\ log[3].outcome = "ok"
    /\ log[2].wxrops.TOA_deg # None /\ log[2].wxrops.ResultsPath # None
    /\ log[3].wxrops.TOA_deg = None /\ log[3].wxrops = log[1].wxrops

(***************************************************************************)
(* C10: exporting a Gaussian beam of E eV writes E/1000 keV (1234 eV gives *)
(* 1.234 keV = 617/500) to the incident, start and end energy, disables    *)
(* multi-energy, writes step energy 1 and 1 energy step, and writes the    *)
(* beam diameter as diameter_m * 1e9 nm.                                   *)
(***************************************************************************)
\* The rational x is n/d.
IsQuotient(x, n, d) == x # None /\ x[1][1] * d = n * x[1][2]

C10_BeamEnergyAndDiameter ==
    Exported
        => LET E == options.beam.energy_eV
               D == options.beam.diameter_m
           IN  /\ IsQuotient(wxrops.IncidentEnergy_keV, E, 1000)
               /\ wxrops.StartEnergy_keV = wxrops.IncidentEnergy_keV
               /\ wxrops.EndEnergy_keV = wxrops.IncidentEnergy_keV
               /\ E = 1234 => wxrops.IncidentEnergy_keV = Some(<<617, 500>>)
               /\ wxrops.MultiEnergy = Some(FALSE)
               /\ wxrops.StepEnergy_keV = Some(1)
               /\ wxrops.NbStepEnergy = Some(1)
               /\ IsQuotient(wxrops.BeamDiameter_nm, D[1] * 1000000000, D[2])

\* 1234 eV and 25 nm.
C10_Witness ==
    /\ Exported /\ outcome = "ok"
    /\ options.beam.energy_eV = 1234
    /\ options.beam.diameter_m = <<1, 40000000>>
    /\ wxrops.EndEnergy_keV = Some(<<617, 500>>)
    /\ wxrops.BeamDiameter_nm = Some(<<25, 1>>)

(***************************************************************************)
(* C11: after _export_detectors has run, for any detectors in any order,   *)
(* a compute flag is True exactly when some detector of the Options sets   *)
(* it and False otherwise (all flags are reset first and no exporter sets  *)
(* one back to False), so the flags depend on the classes present and not  *)
(* on their order; XrayComputeBackground implies XrayComputeCharacteristic,*)
(* which implies XrayCompute; ComputeBSEEnergy or ComputeBSEAngular        *)
(* implies ComputeBSEDistribution.                                         *)
(***************************************************************************)
\* The flags the exporter of a detector class sets.
FlagsSetBy(kind) ==
    CASE kind = "BackscatteredElectronEnergyDetector" ->
            {"ComputeBSEDistribution", "ComputeBSEEnergy"}
      [] kind = "BackscatteredElectronPolarAngularDetector" ->
            {"ComputeBSEDistribution", "ComputeBSEAngular"}
      [] kind = "PhotonDepthDetector" -> {"XrayCompute", "XrayComputeCharacteristic"}
      [] kind = "PhotonIntensityDetector" -> {"XrayCompute", "XrayComputeCharacteristic"}
      [] kind = "PhotonSpectrumDetector" ->
            {"XrayCompute", "XrayComputeBackground", "XrayComputeCharacteristic"}
      [] kind = "ElectronFractionDetector" ->
            {"ComputeBSEDistribution", "ComputeBSEEnergy"}
      [] OTHER -> {}

FlagsSet(opts) ==
    UNION {FlagsSetBy(opts.detectors[i].kind) : i \in DOMAIN opts.detectors}

On(f) == wxrops[f] = Some(TRUE)

C11_FlagsFromDetectors ==
    Exported
        => /\ \A f \in Flags : wxrops[f] = Some(f \in FlagsSet(options))
           /\ On("XrayComputeBackground") => On("XrayComputeCharacteristic")
           /\ On("XrayComputeCharacteristic") => On("XrayCompute")
           /\ (On("ComputeBSEEnergy") \/ On("ComputeBSEAngular"))
                => On("ComputeBSEDistribution")

\* A spectrum detector exported before an intensity detector and a polar
\* angular detector: the background flag stays True.
C11_Witness ==
    /\ Exported /\ outcome = "ok"
    /\ Len(options.detectors) = 3
    /\ options.detectors[1].kind = "PhotonSpectrumDetector"
    /\ options.detectors[2].kind = "PhotonIntensityDetector"
    /\ options.detectors[3].kind = "BackscatteredElectronPolarAngularDetector"
    /\ On("XrayComputeBackground") /\ On("ComputeBSEAngular")
    /\ ~On("ComputeBSEEnergy")

=============================================================================
